---- MODULE Spec2Model ----
(***************************************************************************)
(* Order book of the prediction market backend                             *)
(* (src/predict_market_backend/main.py, models.py).                        *)
(*                                                                         *)
(* The committed tables are `orders` and `transactions`.  A request works  *)
(* on the session's view (`s_orders`, `s_transactions`) and the committed  *)
(* tables change only at db.commit().  A submission is split at its        *)
(* blocking settlement calls: one step up to the candidate query, one step *)
(* per settlement call, one step for the trailing commit.  Requests run    *)
(* one at a time.                                                          *)
(*                                                                         *)
(* Prices are ticks (integers); one market is modelled, so the columns     *)
(* market_address, user_address, created_at and dealt_at, which no         *)
(* condition of the handlers reads, are left out.  An order's id and its   *)
(* order_serial are drawn from the same counter.                           *)
(***************************************************************************)
EXTENDS Integers, Sequences, FiniteSets, TLC

\* ---- bounds -------------------------------------------------------------
MaxOrders == 3
MaxAmount == 2
MaxPrice == 2

\* ---- request inputs -----------------------------------------------------
\* OrderCreate.side / OrderCreate.outcome are plain strings: nothing
\* restricts them to buy/sell and yes/no.
Sides == {"buy", "sell", "hold"}

Outcomes == {"yes", "no"}

\* OrderCreate.amount is an int; the data model takes it to be >= 0
Amounts == 0..MaxAmount

Prices == 1..MaxPrice

MarketStates == {"Preorder", "Active", "Resolved", "Cancelled"}

OrderIds == 1..(MaxOrders + 1)

\* order_serial = str(uuid.uuid4()): the serials a run can hand out
Serials == 1..(MaxOrders + 1)

\* models.OrderStatus
OPEN == "open"

PARTIALLY_DEALT == "partially_dealt"

DEALT == "dealt"

CANCELLED == "cancelled"

OrderStatus == {OPEN, PARTIALLY_DEALT, DEALT, CANCELLED}

\* receipt of transferShares: status 1, status 0, or an exception
Receipts == {"success", "reverted", "error"}

\* no id (Order.id starts at 1): db_order when no submission is running
NoOrder == 0

\* Python None: what .first() returns when no row matches
None == [id |-> NoOrder, order_serial |-> NoOrder]

VARIABLES
    orders,          \* committed table orders
    transactions,    \* committed table transactions
    s_orders,        \* the request's session view of orders
    s_transactions,  \* the request's session view of transactions
    pc,              \* "idle" | "matching"
    db_order,        \* id of the order being submitted (NoOrder when idle)
    remaining_amount,\* create_order's local remaining_amount
    matched_orders,  \* ids returned by match_order, in order
    next_match,      \* index of the next candidate of the for loop
    next_serial,     \* source of fresh ids / serials
    response,        \* outcome of the last finished request
    calls,           \* transferShares calls of the current/last submission
    onchain,         \* serial -> quantity of committed transfers made for it
    submitted        \* serial -> amount of the submitted order

vars == <<orders, transactions, s_orders, s_transactions, pc, db_order,
          remaining_amount, matched_orders, next_match, next_serial,
          response, calls, onchain, submitted>>

Min(a, b) == IF a <= b THEN a ELSE b

\* db.query(Order).filter(Order.id == id).first()
OrderById(tbl, id) ==
    IF \E o \in tbl : o.id = id THEN CHOOSE o \in tbl : o.id = id ELSE None

\* db.query(Transaction).filter(Transaction.order_serial == serial).first()
TransactionBySerial(tbl, serial) ==
    IF \E t \in tbl : t.order_serial = serial
    THEN CHOOSE t \in tbl : t.order_serial = serial
    ELSE None

\* int(transaction_price * 10**18): the price scaled by 10^18, kept as
\* mantissa and decimal exponent.
FixedPoint(price) == <<price, 18>>

\* the oracle check that also lets the Preorder phase through
MarketActiveOrPreorder(market_state) == market_state \in {"Active", "Preorder"}

\* market_state != "Active" rejects (main.py:93, 258)
MarketActive(market_state) == market_state = "Active"

\* the side filter that looks at the incoming order's own side
OppositeSideWrong(side) == side

\* opposite_side = "sell" if new_order.side == "buy" else "buy" (main.py:328)
OppositeSide(side) == IF side = "buy" THEN "sell" ELSE "buy"

\* the price filter with strict comparisons: equal prices do not match
PriceEligibleStrict(side, resting_price, price) ==
    IF side = "buy" THEN resting_price < price ELSE resting_price > price

\* the price filter with its comparisons the wrong way round
PriceEligibleFlipped(side, resting_price, price) ==
    IF side = "buy" THEN resting_price >= price ELSE resting_price <= price

\* Order.price <= new_order.price / Order.price >= new_order.price
PriceEligible(side, resting_price, price) ==
    IF side = "buy" THEN resting_price <= price ELSE resting_price >= price

\* the sort directions swapped: dearest seller first, lowest bidder first
PriceOrderedReversed(side, p, q) == IF side = "buy" THEN p >= q ELSE p <= q

\* order_by(Order.price.asc()) / order_by(Order.price.desc())
PriceOrdered(side, p, q) == IF side = "buy" THEN p <= q ELSE p >= q

\* match_order: the possible results of query.all(); rows of equal price
\* come in any order.
match_order(db, new_order) ==
    IF new_order.amount <= 0 THEN {<<>>}
    ELSE
      LET opposite_side == OppositeSide(new_order.side)
          rows == {o \in db : /\ o.outcome = new_order.outcome
                              /\ o.side = opposite_side
                              /\ o.amount > 0
                              /\ PriceEligible(new_order.side, o.price, new_order.price)}
          n == Cardinality(rows)
      IN {s \in [1..n -> {o.id : o \in rows}] :
            /\ \A a, b \in 1..n : a # b => s[a] # s[b]
            /\ \A a, b \in 1..n : a < b =>
                 PriceOrdered(new_order.side,
                              OrderById(rows, s[a]).price,
                              OrderById(rows, s[b]).price)}

\* the fill priced at the incoming order's limit
TransactionPriceOfTaker(new_order, matched_order) == new_order.price

\* transaction_price = matched_order.price (main.py:143)
TransactionPrice(new_order, matched_order) == matched_order.price

\* status after a fill (main.py:174, 182)
FillStatus(remaining) == IF remaining > 0 THEN PARTIALLY_DEALT ELSE DEALT

\* a fill that forgets to decrement remaining_amount
FillKeepsRemaining(t, matched_amount, transaction_price) ==
    [t EXCEPT !.deal_amount = @ + matched_amount,
              !.price = transaction_price,
              !.status = FillStatus(t.remaining_amount - matched_amount)]

\* the Transaction columns updated by one fill (main.py:171-174, 179-182)
Fill(t, matched_amount, transaction_price) ==
    [t EXCEPT !.deal_amount = @ + matched_amount,
              !.remaining_amount = @ - matched_amount,
              !.price = transaction_price,
              !.status = FillStatus(t.remaining_amount - matched_amount)]

\* the receipt's status is not looked at: only an exception stops the fill
ReceiptUnchecked(receipt) == receipt # "error"

\* receipt["status"] == 0 raises; only status 1 goes on to the updates
ReceiptOk(receipt) == receipt = "success"

\* the request's session is closed without db.commit(): what it had not
\* committed is gone, the tables are as committed.
get_db(committed, session) == committed

Init ==
    /\ orders = {}
    /\ transactions = {}
    /\ s_orders = {}
    /\ s_transactions = {}
    /\ pc = "idle"
    /\ db_order = NoOrder
    /\ remaining_amount = 0
    /\ matched_orders = <<>>
    /\ next_match = 1
    /\ next_serial = 1
    /\ response = "none"
    /\ calls = <<>>
    /\ onchain = [s \in Serials |-> 0]
    /\ submitted = [s \in Serials |-> 0]

\* create_order, main.py:89-94, for one report of the oracle: the market
\* is not Active
create_order_rejected(market_state) ==
    /\ pc = "idle"
    /\ ~MarketActive(market_state)
    /\ response' = "400"
    /\ UNCHANGED <<orders, transactions, s_orders, s_transactions, pc, db_order,
                   remaining_amount, matched_orders, next_match, next_serial,
                   calls, onchain, submitted>>

CreateOrderRejected ==
    \E market_state \in MarketStates : create_order_rejected(market_state)

\* create_order, main.py:89-131, for one request: market check, the Order and
\* Transaction rows (flushed by begin_nested), the candidate query.
\* last_serial caps the number of submissions of a run.
create_order_request(market_state, side, outcome, price, amount, last_serial) ==
    /\ pc = "idle"
    /\ MarketActive(market_state)
    /\ next_serial <= last_serial
    /\   LET order_serial == next_serial
             new_order == [id |-> order_serial, order_serial |-> order_serial,
                           outcome |-> outcome, price |-> price,
                           amount |-> amount, side |-> side]
             new_transaction == [order_serial |-> order_serial, outcome |-> outcome,
                                 side |-> side, deal_amount |-> 0,
                                 remaining_amount |-> amount, price |-> price,
                                 status |-> OPEN]
         IN /\ s_orders' = orders \cup {new_order}
            /\ s_transactions' = transactions \cup {new_transaction}
            /\ db_order' = new_order.id
            /\ matched_orders' \in match_order(orders \cup {new_order}, new_order)
            /\ remaining_amount' = amount
            /\ submitted' = [submitted EXCEPT ![order_serial] = amount]
    /\ next_match' = 1
    /\ next_serial' = next_serial + 1
    /\ calls' = <<>>
    /\ response' = "pending"
    /\ pc' = "matching"
    /\ UNCHANGED <<orders, transactions, onchain>>

create_order_begin(sides) ==
    \E market_state \in MarketStates, side \in sides, outcome \in Outcomes,
       price \in Prices, amount \in Amounts :
        create_order_request(market_state, side, outcome, price, amount, MaxOrders)

\* create_order up to its first blocking call, for one report of the oracle
create_order(market_state) ==
    \/ create_order_rejected(market_state)
    \/ \E side \in Sides, outcome \in Outcomes, price \in Prices, amount \in Amounts :
         create_order_request(market_state, side, outcome, price, amount, MaxOrders)

CreateOrderBegin == create_order_begin(Sides)

\* submissions whose side is buy or sell
CreateOrderBuySell == create_order_begin({"buy", "sell"})

\* the for loop has a candidate to process (main.py:132-134)
LoopContinues ==
    /\ pc = "matching"
    /\ next_match <= Len(matched_orders)
    /\ remaining_amount # 0

\* the transferShares call of the current candidate (main.py:141-161)
TransferCall(receipt) ==
    LET new_order == OrderById(s_orders, db_order)
        matched_order == OrderById(s_orders, matched_orders[next_match])
        matched_amount == Min(remaining_amount, matched_order.amount)
        transaction_price == TransactionPrice(new_order, matched_order)
    IN [seller |-> IF new_order.side = "sell" THEN new_order.order_serial
                   ELSE matched_order.order_serial,
        buyer |-> IF new_order.side = "buy" THEN new_order.order_serial
                  ELSE matched_order.order_serial,
        is_yes |-> (new_order.outcome = "yes"),
        price |-> FixedPoint(transaction_price),
        amount |-> matched_amount,
        receipt |-> receipt,
        taker |-> new_order,
        maker |-> matched_order]

\* the ledger after a call: a transfer with receipt status 1 is committed,
\* and counts for the two orders of the pair it was made for
Ledger(call) ==
    IF call.receipt = "success"
    THEN [s \in Serials |->
            IF s \in {call.taker.order_serial, call.maker.order_serial}
            THEN onchain[s] + call.amount
            ELSE onchain[s]]
    ELSE onchain

\* create_order, main.py:136-199: one candidate whose transfer succeeded
SettleSuccess ==
    /\ LoopContinues
    /\ \E receipt \in Receipts :
         LET call == TransferCall(receipt)
             new_order == OrderById(s_orders, db_order)
             matched_order == OrderById(s_orders, matched_orders[next_match])
             db_transaction == TransactionBySerial(s_transactions, new_order.order_serial)
             matched_transaction ==
                 TransactionBySerial(s_transactions, matched_order.order_serial)
             matched_amount == call.amount
             transaction_price == TransactionPrice(new_order, matched_order)
             left == remaining_amount - matched_amount
         IN /\ matched_transaction # None
            /\ ReceiptOk(receipt)
            /\ calls' = Append(calls, call)
            /\ onchain' = Ledger(call)
            /\ s_transactions' =
                 (s_transactions \ {db_transaction, matched_transaction})
                 \cup {Fill(db_transaction, matched_amount, transaction_price),
                       Fill(matched_transaction, matched_amount, transaction_price)}
            /\ s_orders' =
                 (s_orders \ {new_order, matched_order})
                 \cup (IF matched_order.amount - matched_amount = 0 THEN {}
                       ELSE {[matched_order EXCEPT !.amount = @ - matched_amount]})
                 \cup (IF left = 0 THEN {}
                       ELSE {[new_order EXCEPT !.amount = left]})
            /\ remaining_amount' = left
    /\ next_match' = next_match + 1
    /\ UNCHANGED <<orders, transactions, pc, db_order, matched_orders,
                   next_serial, response, submitted>>

\* create_order, main.py:137-139, 166-168, 201-206: the HTTPException leaves
\* the begin_nested block, which rolls the savepoint back; db.commit() is
\* never reached.
SettleFail ==
    /\ LoopContinues
    /\ \E receipt \in Receipts :
         LET call == TransferCall(receipt)
             matched_order == OrderById(s_orders, matched_orders[next_match])
             matched_transaction ==
                 TransactionBySerial(s_transactions, matched_order.order_serial)
         IN IF matched_transaction = None
            THEN UNCHANGED <<calls, onchain>>
            ELSE /\ ~ReceiptOk(receipt)
                 /\ calls' = Append(calls, call)
                 /\ onchain' = Ledger(call)
    /\ s_orders' = get_db(orders, s_orders)
    /\ s_transactions' = get_db(transactions, s_transactions)
    /\ response' = "400"
    /\ pc' = "idle"
    /\ db_order' = NoOrder
    /\ UNCHANGED <<orders, transactions, remaining_amount, matched_orders,
                   next_match, next_serial, submitted>>

\* the trailing step without its delete branch: the order row is committed
\* whatever is left of it
CreateOrderFinishKeepsRow ==
    /\ pc = "matching"
    /\ ~LoopContinues
    /\ LET new_order == OrderById(s_orders, db_order)
           rest == s_orders \ {new_order}
           kept == IF new_order # None
                   THEN rest \cup {[new_order EXCEPT !.amount = remaining_amount]}
                   ELSE rest
       IN /\ orders' = kept
          /\ s_orders' = kept
    /\ transactions' = s_transactions
    /\ response' = "200"
    /\ pc' = "idle"
    /\ db_order' = NoOrder
    /\ UNCHANGED <<s_transactions, remaining_amount, matched_orders, next_match,
                   next_serial, calls, onchain, submitted>>

\* create_order, main.py:208-244: the loop is over; the order rests with
\* what is left of it, or is deleted; db.commit().
CreateOrderFinish ==
    /\ pc = "matching"
    /\ ~LoopContinues
    /\ LET new_order == OrderById(s_orders, db_order)
           rest == s_orders \ {new_order}
           kept == IF remaining_amount > 0
                   THEN rest \cup {[new_order EXCEPT !.amount = remaining_amount]}
                   ELSE rest
       IN /\ orders' = kept
          /\ s_orders' = kept
    /\ transactions' = s_transactions
    /\ response' = "200"
    /\ pc' = "idle"
    /\ db_order' = NoOrder
    /\ UNCHANGED <<s_transactions, remaining_amount, matched_orders, next_match,
                   next_serial, calls, onchain, submitted>>

\* cancel_order, main.py:249-259: how the request ends.  Reading
\* db_order.order_serial of a missing row raises AttributeError before the
\* 404 check, which the handler does not catch.
CancelOutcome(order_id, market_state) ==
    LET row == OrderById(orders, order_id)
        db_transaction == TransactionBySerial(transactions, row.order_serial)
    IN IF row = None THEN "500"
       ELSE IF db_transaction = None THEN "404"
       ELSE IF db_transaction.status \notin {OPEN, PARTIALLY_DEALT} THEN "400"
       ELSE IF ~MarketActive(market_state) THEN "400"
       ELSE "200"

\* cancel_order without db.delete(db_order): the row stays in the book
cancel_order_keeps_row(order_id, market_state) ==
    /\ pc = "idle"
    /\ LET row == OrderById(orders, order_id)
           db_transaction == TransactionBySerial(transactions, row.order_serial)
       IN /\ response' = CancelOutcome(order_id, market_state)
          /\ IF CancelOutcome(order_id, market_state) = "200"
             THEN /\ transactions' = (transactions \ {db_transaction})
                       \cup {[db_transaction EXCEPT !.status = CANCELLED]}
                  /\ orders' = orders
             ELSE UNCHANGED <<orders, transactions>>
    /\ s_orders' = orders'
    /\ s_transactions' = transactions'
    /\ UNCHANGED <<pc, db_order, remaining_amount, matched_orders, next_match,
                   next_serial, calls, onchain, submitted>>

\* cancel_order, main.py:248-276, for one request
cancel_order(order_id, market_state) ==
    /\ pc = "idle"
    /\ LET row == OrderById(orders, order_id)
           db_transaction == TransactionBySerial(transactions, row.order_serial)
       IN /\ response' = CancelOutcome(order_id, market_state)
          /\ IF CancelOutcome(order_id, market_state) = "200"
             THEN /\ transactions' = (transactions \ {db_transaction})
                       \cup {[db_transaction EXCEPT !.status = CANCELLED]}
                  /\ orders' = orders \ {row}
             ELSE UNCHANGED <<orders, transactions>>
    /\ s_orders' = orders'
    /\ s_transactions' = transactions'
    /\ UNCHANGED <<pc, db_order, remaining_amount, matched_orders, next_match,
                   next_serial, calls, onchain, submitted>>

CancelOrder ==
    \E order_id \in OrderIds, market_state \in MarketStates :
        cancel_order(order_id, market_state)

Next ==
    \/ CreateOrderRejected
    \/ CreateOrderBegin
    \/ SettleSuccess
    \/ SettleFail
    \/ CreateOrderFinish
    \/ CancelOrder

Spec == Init /\ [][Next]_vars

\* the same program when every submission has side buy or sell
NextBuySell ==
    \/ CreateOrderRejected
    \/ CreateOrderBuySell
    \/ SettleSuccess
    \/ SettleFail
    \/ CreateOrderFinish
    \/ CancelOrder

SpecBuySell == Init /\ [][NextBuySell]_vars

\* submissions to one book (outcome yes, side buy or sell, amount > 0), one
\* more of them than in Spec
CreateOrderSameBook ==
    \E market_state \in MarketStates, side \in {"buy", "sell"},
       price \in Prices, amount \in 1..MaxAmount :
        create_order_request(market_state, side, "yes", price, amount, MaxOrders + 1)

NextSameBook ==
    \/ CreateOrderRejected
    \/ CreateOrderSameBook
    \/ SettleSuccess
    \/ SettleFail
    \/ CreateOrderFinish
    \/ CancelOrder

SpecSameBook == Init /\ [][NextSameBook]_vars

\* ---- properties ---------------------------------------------------------

\* the makers of the calls made so far in this submission
EarlierMakers == {matched_orders[j] : j \in 1..(next_match - 1)}

\* C1: in every committed state each Transaction has
\* deal_amount + remaining_amount = the amount its order was submitted with.
C1_DealPlusRemaining ==
    \A t \in transactions :
        t.deal_amount + t.remaining_amount = submitted[t.order_serial]

C1_Witness ==
    \E t \in transactions : t.deal_amount > 0 /\ t.remaining_amount > 0

\* C2: when no request is in progress, each Transaction's deal_amount is the
\* quantity of committed transfers its order took part in as buyer or seller,
\* and every order with a committed transfer has a Transaction.
C2_DealAmountMatchesLedger ==
    pc = "idle" =>
        /\ \A t \in transactions : t.deal_amount = onchain[t.order_serial]
        /\ \A s \in 1..MaxOrders :
             onchain[s] > 0 => TransactionBySerial(transactions, s) # None

\* C3: when the settlement of a candidate after the first fails, the request
\* ends with an error and the store keeps what the earlier candidates of the
\* submission changed: their Transactions and their Order rows (or their
\* deletion) as the session had them.
C3_EarlierPairsRetained ==
    [][(SettleFail /\ next_match > 1) =>
         /\ response' = "400"
         /\ \A m \in EarlierMakers :
              /\ TransactionBySerial(transactions', m)
                   = TransactionBySerial(s_transactions, m)
              /\ OrderById(orders', m) = OrderById(s_orders, m)]_vars

\* C4: unless CANCELLED, remaining = original implies OPEN,
\* 0 < remaining < original implies PARTIALLY_DEALT, remaining = 0 implies
\* DEALT, for every submitted amount >= 0.
C4_StatusFromRemaining ==
    \A t \in transactions :
        t.status # CANCELLED =>
            LET original == submitted[t.order_serial]
            IN /\ t.remaining_amount = original => t.status = OPEN
               /\ (0 < t.remaining_amount /\ t.remaining_amount < original)
                    => t.status = PARTIALLY_DEALT
               /\ t.remaining_amount = 0 => t.status = DEALT

\* the status changes the lifecycle allows
StatusStep(from, to) ==
    \/ to = from
    \/ from = OPEN /\ to \in {PARTIALLY_DEALT, DEALT, CANCELLED}
    \/ from = PARTIALLY_DEALT /\ to \in {DEALT, CANCELLED}

\* C5: a Transaction is never removed, its status only moves forward along
\* OPEN -> PARTIALLY_DEALT -> DEALT or to CANCELLED from OPEN or
\* PARTIALLY_DEALT, and DEALT and CANCELLED are final.
C5_StatusMonotonic ==
    [][\A t \in transactions :
         LET u == TransactionBySerial(transactions', t.order_serial)
         IN u # None /\ StatusStep(t.status, u.status)]_vars

C5_Witness ==
    /\ \E t \in transactions : t.status = CANCELLED /\ t.deal_amount > 0
    /\ \E t \in transactions : t.status = DEALT
    /\ next_serial > MaxOrders

\* C6: every committed Order row has amount > 0.
C6_OrdersPositive == \A o \in orders : o.amount > 0

C6_Witness ==
    /\ \E t \in transactions :
         t.status = DEALT /\ OrderById(orders, t.order_serial) = None
    /\ \E t \in transactions :
         submitted[t.order_serial] = 0 /\ OrderById(orders, t.order_serial) = None
    /\ \E o \in orders :
         TransactionBySerial(transactions, o.order_serial).status = PARTIALLY_DEALT

\* C7: every settlement call of an incoming BUY at price P is against a
\* resting SELL of the same outcome priced <= P; of an incoming SELL, against
\* a resting BUY of the same outcome priced >= P.
C7_PriceBound ==
    \A k \in 1..Len(calls) :
        LET c == calls[k]
        IN /\ c.taker.side = "buy" =>
                /\ c.maker.side = "sell"
                /\ c.maker.price <= c.taker.price
                /\ c.maker.outcome = c.taker.outcome
           /\ c.taker.side = "sell" =>
                /\ c.maker.side = "buy"
                /\ c.maker.price >= c.taker.price
                /\ c.maker.outcome = c.taker.outcome

C7_Witness ==
    /\ \E k \in 1..Len(calls) :
         calls[k].taker.side = "buy" /\ calls[k].maker.price < calls[k].taker.price
    /\ \E o \in orders : o.side = "sell" /\ o.price = MaxPrice

\* C8: the price of every settlement call is the maker's price in fixed
\* point, and after a settled call the Transactions of both orders carry the
\* maker's price.
C8_MakerPrice ==
    /\ \A k \in 1..Len(calls) : calls[k].price = FixedPoint(calls[k].maker.price)
    /\ (pc = "matching" /\ Len(calls) > 0) =>
         LET c == calls[Len(calls)]
         IN /\ TransactionBySerial(s_transactions, c.taker.order_serial).price
                 = c.maker.price
            /\ TransactionBySerial(s_transactions, c.maker.order_serial).price
                 = c.maker.price

C8_Witness ==
    /\ pc = "matching"
    /\ Len(calls) > 0
    /\ calls[Len(calls)].maker.price # calls[Len(calls)].taker.price

\* the first settlement attempt of the submission did not succeed
FirstAttemptFailed(cs) == Len(cs) > 0 /\ cs[1].receipt # "success"

\* C9: a submission whose first settlement attempt fails ends with an error,
\* leaves every committed Order and Transaction as it was, and no Transaction
\* of the incoming order shows a deal_amount > 0.
C9_FirstFailureChangesNothing ==
    [][(pc = "matching" /\ pc' = "idle" /\ FirstAttemptFailed(calls')) =>
         /\ response' = "400"
         /\ orders' = orders
         /\ transactions' = transactions
         /\ \A t \in transactions' :
              t.order_serial = db_order => t.deal_amount = 0]_vars

C9_Witness ==
    /\ pc = "idle"
    /\ response = "400"
    /\ Len(calls) = 1
    /\ calls[1].receipt = "reverted"
    /\ \E o \in orders : o.amount > 0

\* C10: a cancel request for an id with no Order row ends with 404 or 400
\* and changes no Order and no Transaction.
C10_CancelMissingOrder ==
    [][\A order_id \in OrderIds, market_state \in MarketStates :
         (OrderById(orders, order_id) = None
            /\ cancel_order(order_id, market_state)) =>
              /\ response' \in {"404", "400"}
              /\ UNCHANGED <<orders, transactions>>]_vars

\* an error outcome of a finished request
ErrorResponses == {"400", "404", "500"}

\* C11: a submit or cancel request that meets a market state other than
\* Active ends with an error, changes no Order and no Transaction, committed
\* or in the session, and makes no settlement call.
C11_InactiveMarketRejects ==
    [][\/ /\ pc' = "idle"
          /\ response' \in ErrorResponses
          /\ UNCHANGED <<orders, transactions, calls, onchain>>
          /\ s_orders' = orders
          /\ s_transactions' = transactions
       \/ \A market_state \in MarketStates \ {"Active"} :
            /\ ~create_order(market_state)
            /\ \A order_id \in OrderIds :
                 ~(pc' = "idle" /\ cancel_order(order_id, market_state))]_vars

C11_Witness ==
    /\ pc = "idle"
    /\ response = "400"
    /\ calls = <<>>
    /\ \E t \in transactions : t.status = PARTIALLY_DEALT
    /\ orders # {}

\* C12: a successful cancel leaves the Transaction CANCELLED with its
\* deal_amount and remaining_amount as they were and removes the Order; from
\* then on the Transaction never changes, the Order never comes back, and no
\* new settlement call names the order.
C12_CancelIsFinal ==
    [][/\ \A order_id \in OrderIds, market_state \in MarketStates :
            (/\ pc = "idle" /\ pc' = "idle" /\ response' = "200"
             /\ cancel_order(order_id, market_state)) =>
                LET t == TransactionBySerial(transactions,
                                             OrderById(orders, order_id).order_serial)
                    u == TransactionBySerial(transactions', t.order_serial)
                IN /\ t.status \in {OPEN, PARTIALLY_DEALT}
                   /\ u = [t EXCEPT !.status = CANCELLED]
                   /\ OrderById(orders', order_id) = None
       /\ \A t \in transactions :
            t.status = CANCELLED =>
                /\ t \in transactions'
                /\ t \in s_transactions'
                /\ OrderById(orders', t.order_serial) = None
                /\ OrderById(s_orders', t.order_serial) = None
                /\ (calls' # calls /\ Len(calls') > 0) =>
                     t.order_serial \notin
                         {calls'[Len(calls')].maker.order_serial,
                          calls'[Len(calls')].taker.order_serial}]_vars

\* a cancelled order, and a later submission that would have matched it
\* settling against another order
C12_Witness ==
    /\ pc = "matching"
    /\ Len(calls) > 0
    /\ \E t \in transactions :
         /\ t.status = CANCELLED
         /\ t.outcome = calls[1].taker.outcome
         /\ t.side = calls[1].maker.side
         /\ t.price = calls[1].maker.price

\* C13: a submission whose side is not buy or sell is rejected: no Order and
\* no Transaction carries such a side, in the store or in a session, and no
\* settlement call is made for one.
C13_InvalidSideRejected ==
    /\ \A o \in orders \cup s_orders : o.side \in {"buy", "sell"}
    /\ \A t \in transactions \cup s_transactions : t.side \in {"buy", "sell"}
    /\ \A k \in 1..Len(calls) : calls[k].taker.side \in {"buy", "sell"}

\* C14: the quantity settled for any one order never exceeds the amount it
\* was submitted with: no resting amount is allocated twice.
C14_NoDoubleAllocation ==
    \A s \in Serials : onchain[s] <= submitted[s]

\* the price of a candidate of the running submission
CandidatePrice(id) == OrderById(orders, id).price

\* C15: within one submission of side buy the maker prices of successive
\* settlement calls never decrease, of side sell they never increase, the
\* calls follow the candidate list, and when a candidate is called every
\* candidate with a strictly better price is gone from the book.
C15_PricePriority ==
    /\ \A j, k \in 1..Len(calls) :
         j < k =>
            /\ calls[k].taker.side = "buy" =>
                 calls[j].maker.price <= calls[k].maker.price
            /\ calls[k].taker.side = "sell" =>
                 calls[j].maker.price >= calls[k].maker.price
    /\ pc = "matching" =>
         \A k \in 1..Len(calls) :
            /\ calls[k].maker.id = matched_orders[k]
            /\ calls[k].taker.side \in {"buy", "sell"} =>
                 \A c \in 1..Len(matched_orders) :
                    (/\ CandidatePrice(matched_orders[c]) # calls[k].maker.price
                     /\ PriceEligible(calls[k].taker.side,
                                      CandidatePrice(matched_orders[c]),
                                      calls[k].maker.price))
                      => /\ c < k
                         /\ OrderById(s_orders, matched_orders[c]) = None

C15_Witness ==
    /\ pc = "matching"
    /\ Len(calls) = 2
    /\ calls[1].maker.price # calls[2].maker.price
    /\ calls[1].taker.side = "buy"

\* the sum of f[1], ..., f[n]
RECURSIVE SumTo(_, _)
SumTo(f, n) == IF n = 0 THEN 0 ELSE f[n] + SumTo(f, n - 1)

\* the quantities of the calls made, and the amounts of the candidates found
CallAmounts == [k \in 1..Len(calls) |-> calls[k].amount]

CandidateAmounts ==
    [c \in 1..Len(matched_orders) |-> OrderById(orders, matched_orders[c]).amount]

\* C16: when a submission of amount A ends with every settlement succeeded,
\* each allocation was min(unfilled amount, candidate amount), the filled
\* total is min(A, sum of the candidates' amounts), and the order rests with
\* A minus the filled total if that is > 0 and is otherwise absent with its
\* Transaction DEALT.
C16_FillTotal ==
    [][CreateOrderFinish =>
         LET A == submitted[db_order]
             filled == SumTo(CallAmounts, Len(calls))
             t == TransactionBySerial(transactions', db_order)
         IN /\ \A k \in 1..Len(calls) :
                 calls[k].amount = Min(A - SumTo(CallAmounts, k - 1),
                                       calls[k].maker.amount)
            /\ filled = Min(A, SumTo(CandidateAmounts, Len(matched_orders)))
            /\ t.deal_amount = filled
            /\ IF A - filled > 0
               THEN OrderById(orders', db_order).amount = A - filled
               ELSE /\ OrderById(orders', db_order) = None
                    /\ t.status = DEALT]_vars

\* C17: in every state, mid-request states included, no Transaction shows a
\* deal_amount above the quantity of its order's committed transfers, and
\* the session's rows change during matching only in the step of a call
\* whose receipt reports success, and only the rows of that call's pair.
C17_NeverAheadOfSettlement ==
    [][/\ \A t \in transactions' \cup s_transactions' :
            t.deal_amount <= onchain'[t.order_serial]
       /\ (pc = "matching" /\ pc' = "matching"
             /\ <<s_orders', s_transactions'>> # <<s_orders, s_transactions>>) =>
            /\ Len(calls') = Len(calls) + 1
            /\ LET c == calls'[Len(calls')]
                   pair == {c.taker.order_serial, c.maker.order_serial}
               IN /\ c.receipt = "success"
                  /\ \A o \in (s_orders' \ s_orders) \cup (s_orders \ s_orders') :
                       o.order_serial \in pair
                  /\ \A t \in (s_transactions' \ s_transactions)
                              \cup (s_transactions \ s_transactions') :
                       t.order_serial \in pair]_vars

C17_Witness ==
    /\ pc = "matching"
    /\ Len(calls) > 0
    /\ \E t \in s_transactions :
         /\ t.deal_amount > 0
         /\ t.remaining_amount > 0
         /\ \E u \in transactions :
              u.order_serial = t.order_serial /\ u.deal_amount = 0

\* C18: every committed Order has the amount its Transaction records as
\* remaining_amount, and that Transaction is OPEN or PARTIALLY_DEALT.
C18_OrderMatchesTransaction ==
    \A o \in orders :
        LET t == TransactionBySerial(transactions, o.order_serial)
        IN /\ t # None
           /\ o.amount = t.remaining_amount
           /\ t.status \in {OPEN, PARTIALLY_DEALT}

C18_Witness ==
    \E o \in orders :
        /\ TransactionBySerial(transactions, o.order_serial).status = PARTIALLY_DEALT
        /\ o.amount < submitted[o.order_serial]

\* C19: the committed book is never crossed: no resting BUY is priced at or
\* above a resting SELL of the same outcome.
C19_BookNotCrossed ==
    \A b, a \in orders :
        (b.side = "buy" /\ a.side = "sell" /\ b.outcome = a.outcome)
            => b.price < a.price

C19_Witness ==
    /\ \E b, a \in orders :
         b.side = "buy" /\ a.side = "sell" /\ b.outcome = a.outcome
    /\ \E t \in transactions : t.status = DEALT

\* the sum of deal_amount over a set of Transactions
RECURSIVE DealSum(_)
DealSum(ts) ==
    IF ts = {} THEN 0
    ELSE LET t == CHOOSE x \in ts : TRUE
         IN t.deal_amount + DealSum(ts \ {t})

\* C20: in every committed state, for each outcome the deal_amount of the
\* buy Transactions sums to that of the sell Transactions.
C20_BuySellBalance ==
    \A outcome \in Outcomes :
        DealSum({t \in transactions : t.outcome = outcome /\ t.side = "buy"})
          = DealSum({t \in transactions : t.outcome = outcome /\ t.side = "sell"})

C20_Witness ==
    /\ \E t \in transactions : t.side = "buy" /\ t.status = PARTIALLY_DEALT
    /\ \E t \in transactions : t.side = "sell" /\ t.status = DEALT

====
